---------------------------- MODULE Spec2Model ----------------------------
(***************************************************************************)
(* Model of the semantic code-search and SQL heuristic analysis service    *)
(* (backend/app.py): the embedding index with its snapshot, the /embed and *)
(* /analyze handlers, the similarity matcher, the rule-based SQL analyzer, *)
(* the scorer and the query classifier.                                    *)
(*                                                                         *)
(* Text is a sequence of one-character strings, so that lower-casing,      *)
(* whitespace normalisation, substring tests and the regular expressions   *)
(* of the source are computed character by character.                      *)
(***************************************************************************)
EXTENDS Integers, Sequences, FiniteSets, TLC

VARIABLES
    \* ---- service state (module globals and the snapshot file)
    indexed_lines,  \* the global index: a sequence of indexed entries
    cache,          \* the snapshot file embedding_cache.pkl
    embed,          \* the embedding model: text -> vector (fixed for a run)
    \* ---- one /embed request
    bpc, b_lines, b_embs, b_i, b_old, b_resp,
    \* ---- one /analyze request
    apc, a_query, a_cached, a_sims, a_top_idx, a_src, a_resp,
    \* ---- the SQL analyzer and the scorer applied to one query
    q_pc, q_sql, q_validated, q_issues, q_score,
    \* ---- the classifier applied to one source line
    c_pc, c_line, c_result,
    \* ---- the context validator applied to one file and line number
    v_pc, v_read, v_line, v_result

svc_vars == << indexed_lines, cache, embed, bpc, b_lines, b_embs, b_i, b_old, b_resp,
               apc, a_query, a_cached, a_sims, a_top_idx, a_src, a_resp >>
sql_vars == << q_pc, q_sql, q_validated, q_issues, q_score >>
cls_vars == << c_pc, c_line, c_result >>
val_vars == << v_pc, v_read, v_line, v_result >>
vars == << svc_vars, sql_vars, cls_vars, val_vars >>

---------------------------------------------------------------------------
(* Characters and text                                                     *)

UpperCase == <<"A", "B", "C", "D", "E", "F", "G", "H", "I", "J", "K", "L", "M", "N", "O", "P", "Q", "R", "S", "T", "U", "V", "W", "X", "Y", "Z">>
LowerCase == <<"a", "b", "c", "d", "e", "f", "g", "h", "i", "j", "k", "l", "m", "n", "o", "p", "q", "r", "s", "t", "u", "v", "w", "x", "y", "z">>
Digits == <<"0", "1", "2", "3", "4", "5", "6", "7", "8", "9">>

\* \s of the re module, over the characters the inputs use
IsSpace(c) == c \in {" ", "\t", "\n"}

\* \w of the re module
IsWord(c) ==
    \/ \E i \in 1..26 : c = LowerCase[i] \/ c = UpperCase[i]
    \/ \E i \in 1..10 : c = Digits[i]
    \/ c = "_"

IsQuote(c) == c \in {"'", "\""}

\* str.lower() on one character
LowerChar(c) ==
    IF \E i \in 1..26 : UpperCase[i] = c
    THEN LowerCase[CHOOSE i \in 1..26 : UpperCase[i] = c]
    ELSE c

\* str.lower()
lower(s) == [i \in 1..Len(s) |-> LowerChar(s[i])]

\* the character at position i, "" beyond either end of the text
At(s, i) == IF i \in 1..Len(s) THEN s[i] ELSE ""

\* the end of the maximal whitespace run starting at i (i itself if none)
SkipWs(s, i) ==
    CHOOSE j \in i..(Len(s) + 1) :
        /\ ~IsSpace(At(s, j))
        /\ \A k \in i..(j - 1) : IsSpace(s[k])

\* the end of the maximal \w run starting at i (i itself if none)
WordEnd(s, i) ==
    CHOOSE j \in i..(Len(s) + 1) :
        /\ ~IsWord(At(s, j))
        /\ \A k \in i..(j - 1) : IsWord(s[k])

\* str.strip()
strip(s) ==
    LET solid == {i \in 1..Len(s) : ~IsSpace(s[i])}
    IN  IF solid = {} THEN << >>
        ELSE SubSeq(s, CHOOSE i \in solid : \A j \in solid : i <= j,
                       CHOOSE i \in solid : \A j \in solid : i >= j)

\* re.sub(r'\s+', ' ', s) on positions lo..hi of s: a whitespace character that
\* starts a run becomes one space, the rest of the run is dropped
RECURSIVE ReSubWsRange(_, _, _)
ReSubWsRange(s, lo, hi) ==
    IF lo > hi THEN << >>
    ELSE IF lo = hi
    THEN IF ~IsSpace(s[lo]) THEN << s[lo] >>
         ELSE IF IsSpace(At(s, lo - 1)) THEN << >> ELSE << " " >>
    ELSE LET mid == (lo + hi) \div 2
         IN  ReSubWsRange(s, lo, mid) \o ReSubWsRange(s, mid + 1, hi)

ReSubWs(s) == ReSubWsRange(s, 1, Len(s))

normalize_sql(sql) == ReSubWs(lower(strip(sql)))

\* p occurs in s at position i
StartsWithAt(s, i, p) ==
    /\ i >= 1
    /\ i + Len(p) - 1 <= Len(s)
    /\ \A k \in 1..Len(p) : s[i + k - 1] = p[k]

\* p in s
Contains(s, p) == \E i \in 1..(Len(s) - Len(p) + 1) : StartsWithAt(s, i, p)

---------------------------------------------------------------------------
(* The regular expressions of analyze_sql_issues.  They are applied to the *)
(* normalised query, which holds no newline, so '.' matches any character  *)
(* and '$' matches at the end of the text only.                            *)

NoMatch == [ok |-> FALSE, end |-> 0, g |-> << >>]

\* (?:\s+kw1|\s+kw2|...) matches at position e
KeywordAfterWs(s, e, kws) ==
    /\ IsSpace(At(s, e))
    /\ \E kw \in kws : StartsWithAt(s, SkipWs(s, e), kw)

\* where the lazy (.*?) starting at j stops: the first position at which one of
\* the \s+keyword alternatives, or $, matches
ClauseEnd(s, j, kws) ==
    CHOOSE e \in j..(Len(s) + 1) :
        /\ e = Len(s) + 1 \/ KeywordAfterWs(s, e, kws)
        /\ \A k \in j..(e - 1) : ~KeywordAfterWs(s, k, kws)

\* r'join\s+\w+\s+on\s+(.*?)(?:\s+where|\s+group|\s+order|\s+limit|$)' at i
JoinOnAt(s, i) ==
    IF ~StartsWithAt(s, i, <<"j", "o", "i", "n">>) THEN NoMatch
    ELSE LET j == SkipWs(s, i + 4)
             r == WordEnd(s, j)
             j2 == SkipWs(s, r)
         IN  IF ~(j > i + 4 /\ r > j /\ j2 > r /\ StartsWithAt(s, j2, <<"o", "n">>)) THEN NoMatch
             ELSE LET j3 == SkipWs(s, j2 + 2)
                      kws == {<<"w", "h", "e", "r", "e">>, <<"g", "r", "o", "u", "p">>, <<"o", "r", "d", "e", "r">>, <<"l", "i", "m", "i", "t">>}
                      e == ClauseEnd(s, j3, kws)
                  IN  IF j3 = j2 + 2 THEN NoMatch
                      ELSE [ok |-> TRUE,
                            end |-> IF e = Len(s) + 1 THEN e ELSE SkipWs(s, e) + 5,
                            g |-> SubSeq(s, j3, e - 1)]

\* r'(\w+)\.(\w+)\s*=\s*\w+\.\w+' at i; the group is table.field
TableFieldEqAt(s, i) ==
    IF ~IsWord(At(s, i)) THEN NoMatch
    ELSE LET r == WordEnd(s, i)
         IN  IF At(s, r) # "." \/ ~IsWord(At(s, r + 1)) THEN NoMatch
             ELSE LET r2 == WordEnd(s, r + 1)
                      j == SkipWs(s, r2)
                  IN  IF At(s, j) # "=" THEN NoMatch
                      ELSE LET j2 == SkipWs(s, j + 1)
                               r3 == WordEnd(s, j2)
                           IN  IF r3 = j2 \/ At(s, r3) # "." \/ ~IsWord(At(s, r3 + 1))
                               THEN NoMatch
                               ELSE [ok |-> TRUE, end |-> WordEnd(s, r3 + 1),
                                     g |-> SubSeq(s, i, r2 - 1)]

\* r'(\w+)\s*=\s*\?' at i
EqParamAt(s, i) ==
    IF ~IsWord(At(s, i)) THEN NoMatch
    ELSE LET r == WordEnd(s, i)
             j == SkipWs(s, r)
         IN  IF At(s, j) # "=" THEN NoMatch
             ELSE LET j2 == SkipWs(s, j + 1)
                  IN  IF At(s, j2) # "?" THEN NoMatch
                      ELSE [ok |-> TRUE, end |-> j2 + 1, g |-> SubSeq(s, i, r - 1)]

\* r'(\w+)\s*=\s*[\'"]?\w+[\'"]?' at i
EqValueAt(s, i) ==
    IF ~IsWord(At(s, i)) THEN NoMatch
    ELSE LET r == WordEnd(s, i)
             j == SkipWs(s, r)
         IN  IF At(s, j) # "=" THEN NoMatch
             ELSE LET j2 == SkipWs(s, j + 1)
                      j3 == IF IsQuote(At(s, j2)) THEN j2 + 1 ELSE j2
                  IN  IF ~IsWord(At(s, j3)) THEN NoMatch
                      ELSE LET r2 == WordEnd(s, j3)
                           IN  [ok |-> TRUE,
                                end |-> IF IsQuote(At(s, r2)) THEN r2 + 1 ELSE r2,
                                g |-> SubSeq(s, i, r - 1)]

\* (\w+)\s*<kw>\s*<tail> at i, where kw is made of \w characters: the greedy (\w+)
\* gives characters back until the rest matches; tail(c) tests the last character
WordThenKeywordAt(s, i, kw, tailIsQuote) ==
    IF ~IsWord(At(s, i)) THEN NoMatch
    ELSE LET r == WordEnd(s, i)
             Rest(k) == LET j == SkipWs(s, k)
                            j2 == SkipWs(s, j + Len(kw))
                        IN  /\ StartsWithAt(s, j, kw)
                            /\ IF tailIsQuote THEN IsQuote(At(s, j2)) ELSE At(s, j2) = "("
             ks == {k \in (i + 1)..r : Rest(k)}
         IN  IF ks = {} THEN NoMatch
             ELSE LET k == CHOOSE x \in ks : \A y \in ks : x >= y
                  IN  [ok |-> TRUE,
                       end |-> SkipWs(s, SkipWs(s, k) + Len(kw)) + 1,
                       g |-> SubSeq(s, i, k - 1)]

\* r'(\w+)\s*in\s*\(' at i
InListAt(s, i) == WordThenKeywordAt(s, i, <<"i", "n">>, FALSE)

\* r'(\w+)\s*like\s*[\'"]' at i
LikeFieldAt(s, i) == WordThenKeywordAt(s, i, <<"l", "i", "k", "e">>, TRUE)

\* r'\(\s*select\s+.*?\)' at i
SubqueryAt(s, i) ==
    IF At(s, i) # "(" THEN NoMatch
    ELSE LET j == SkipWs(s, i + 1)
             closes == {e \in (j + 7)..Len(s) : s[e] = ")"}
         IN  IF ~(StartsWithAt(s, j, <<"s", "e", "l", "e", "c", "t">>) /\ IsSpace(At(s, j + 6)) /\ closes # {})
             THEN NoMatch
             ELSE LET e == CHOOSE x \in closes : \A y \in closes : x <= y
                  IN  [ok |-> TRUE, end |-> e + 1, g |-> SubSeq(s, i, e)]

\* r'like\s+[\'"]%(\w+)' at i
LikeLeadingAt(s, i) ==
    IF ~StartsWithAt(s, i, <<"l", "i", "k", "e">>) THEN NoMatch
    ELSE LET j == SkipWs(s, i + 4)
         IN  IF ~(j > i + 4 /\ IsQuote(At(s, j)) /\ At(s, j + 1) = "%" /\ IsWord(At(s, j + 2)))
             THEN NoMatch
             ELSE [ok |-> TRUE, end |-> WordEnd(s, j + 2),
                   g |-> SubSeq(s, j + 2, WordEnd(s, j + 2) - 1)]

MatchAt(pat, s, i) ==
    CASE pat = "join_on" -> JoinOnAt(s, i)
      [] pat = "table_field_eq" -> TableFieldEqAt(s, i)
      [] pat = "eq_param" -> EqParamAt(s, i)
      [] pat = "eq_value" -> EqValueAt(s, i)
      [] pat = "in_list" -> InListAt(s, i)
      [] pat = "like_field" -> LikeFieldAt(s, i)
      [] pat = "subquery" -> SubqueryAt(s, i)
      [] pat = "like_leading" -> LikeLeadingAt(s, i)

\* re.findall(pat, s): the groups of the non-overlapping matches, leftmost first
RECURSIVE FindAllFrom(_, _, _)
FindAllFrom(pat, s, pos) ==
    LET hits == {i \in pos..Len(s) : MatchAt(pat, s, i).ok}
    IN  IF hits = {} THEN << >>
        ELSE LET m == MatchAt(pat, s, CHOOSE i \in hits : \A j \in hits : i <= j)
             IN  << m.g >> \o FindAllFrom(pat, s, m.end)

FindAll(pat, s) == FindAllFrom(pat, s, 1)

\* re.search(r'where\s+(.*?)(?:\s+group|\s+order|\s+limit|$)', s): group 1
WhereClause(s) ==
    LET starts == {i \in 1..Len(s) : StartsWithAt(s, i, <<"w", "h", "e", "r", "e">>) /\ IsSpace(At(s, i + 5))}
    IN  IF starts = {} THEN [found |-> FALSE, text |-> << >>]
        ELSE LET i == CHOOSE x \in starts : \A y \in starts : x <= y
                 j == SkipWs(s, i + 5)
                 e == ClauseEnd(s, j, {<<"g", "r", "o", "u", "p">>, <<"o", "r", "d", "e", "r">>, <<"l", "i", "m", "i", "t">>})
             IN  [found |-> TRUE, text |-> SubSeq(s, j, e - 1)]

---------------------------------------------------------------------------
(* analyze_sql_issues: an issue is its rule and the field it names         *)

Issue(rule, arg) == [rule |-> rule, arg |-> arg]

\* [f(x) for x in xs if keep(x)]
RECURSIVE IssuesFor(_, _, _)
IssuesFor(rule, args, exempt) ==
    IF args = << >> THEN << >>
    ELSE (IF Head(args) \in exempt THEN << >> ELSE << Issue(rule, Head(args)) >>)
         \o IssuesFor(rule, Tail(args), exempt)

\* for condition in join_conditions: for table, field in findall(...): append
RECURSIVE JoinIndexIssues(_)
JoinIndexIssues(conditions) ==
    IF conditions = << >> THEN << >>
    ELSE IssuesFor("join_index", FindAll("table_field_eq", Head(conditions)), {})
         \o JoinIndexIssues(Tail(conditions))

FieldPatterns == << "eq_param", "eq_value", "in_list", "like_field" >>

ExemptFields == {<<"i", "d">>, <<"c", "r", "e", "a", "t", "e", "d", "_", "a", "t">>, <<"u", "p", "d", "a", "t", "e", "d", "_", "a", "t">>}

\* for pattern in field_patterns: for field in findall(pattern, where_clause): ...
RECURSIVE WhereIndexIssues(_, _)
WhereIndexIssues(where_clause, p) ==
    IF p > Len(FieldPatterns) THEN << >>
    ELSE IssuesFor("where_index", FindAll(FieldPatterns[p], where_clause), ExemptFields)
         \o WhereIndexIssues(where_clause, p + 1)

\* rule 10: the issue is emitted when findall returns a non-empty list
LikeLeadingIssues(normalized_sql) ==
    IF FindAll("like_leading", normalized_sql) # << >>
    THEN << Issue("like_leading", << >>) >> ELSE << >>

analyze_sql_issues(sql) ==
    LET normalized_sql == ReSubWs(strip(lower(sql)))
        Has(p) == Contains(normalized_sql, p)
        When(c, rule) == IF c THEN << Issue(rule, << >>) >> ELSE << >>
        where_match == WhereClause(normalized_sql)
    IN  When(Has(<<"s", "e", "l", "e", "c", "t", " ", "*">>), "select_star")
        \o When(~Has(<<"l", "i", "m", "i", "t">>) /\ (Has(<<"s", "e", "l", "e", "c", "t">>) \/ Has(<<"u", "n", "i", "o", "n">>)), "no_limit")
        \o (IF Has(<<" ", "j", "o", "i", "n", " ">>)
            THEN IF ~Has(<<" ", "o", "n", " ">>) THEN << Issue("join_no_on", << >>) >>
                 ELSE JoinIndexIssues(FindAll("join_on", normalized_sql))
            ELSE << >>)
        \o (IF Has(<<"w", "h", "e", "r", "e">>) /\ where_match.found
            THEN WhereIndexIssues(where_match.text, 1) ELSE << >>)
        \o When(Has(<<"(">>) /\ Has(<<"s", "e", "l", "e", "c", "t">>)
                  /\ Len(FindAll("subquery", normalized_sql)) > 2, "subqueries")
        \o When(Has(<<"o", "r", "d", "e", "r", " ", "b", "y">>) /\ ~Has(<<"l", "i", "m", "i", "t">>), "order_no_limit")
        \o When(Has(<<"g", "r", "o", "u", "p", " ", "b", "y">>) /\ ~Has(<<"h", "a", "v", "i", "n", "g">>), "group_no_having")
        \o When(Has(<<"d", "i", "s", "t", "i", "n", "c", "t">>), "distinct")
        \o When(Has(<<"u", "n", "i", "o", "n">>), "union")
        \o LikeLeadingIssues(normalized_sql)

---------------------------------------------------------------------------
(* calculate_performance_score and get_performance_rating                  *)

\* the rules the scorer charges for, with the scorer's own test of each
ScoredRules ==
    << "select_star", "join_no_on", "no_limit", "like_leading",
       "distinct", "union", "order_no_limit" >>

ScorerPenalises(rule, sql) ==
    LET sql_lower == lower(sql)
        Has(p) == Contains(sql_lower, p)
    IN  CASE rule = "select_star" -> Has(<<"s", "e", "l", "e", "c", "t", " ", "*">>)
          [] rule = "join_no_on" -> Has(<<" ", "j", "o", "i", "n", " ">>) /\ ~Has(<<" ", "o", "n", " ">>)
          [] rule = "no_limit" -> ~Has(<<"l", "i", "m", "i", "t">>) /\ (Has(<<"s", "e", "l", "e", "c", "t">>) \/ Has(<<"u", "n", "i", "o", "n">>))
          [] rule = "like_leading" -> Has(<<"l", "i", "k", "e">>) /\ Contains(sql, <<"%">>)
          [] rule = "distinct" -> Has(<<"d", "i", "s", "t", "i", "n", "c", "t">>)
          [] rule = "union" -> Has(<<"u", "n", "i", "o", "n">>)
          [] rule = "order_no_limit" -> Has(<<"o", "r", "d", "e", "r", " ", "b", "y">>) /\ ~Has(<<"l", "i", "m", "i", "t">>)

\* a scorer that charges every rule the same
penalty_flat(rule) == 10

Penalty(rule) ==
    CASE rule \in {"select_star", "join_no_on"} -> 20
      [] rule = "no_limit" -> 15
      [] rule \in {"like_leading", "distinct", "union", "order_no_limit"} -> 10

RECURSIVE PenaltySum(_, _)
PenaltySum(sql, r) ==
    IF r > Len(ScoredRules) THEN 0
    ELSE (IF ScorerPenalises(ScoredRules[r], sql) THEN Penalty(ScoredRules[r]) ELSE 0)
         + PenaltySum(sql, r + 1)

\* the score before the final clamp
RawScore(sql, issues, validated) ==
    LET sql_lower == lower(sql)
        Bonus(p) == IF Contains(sql_lower, p) THEN 5 ELSE 0
    IN  100 - PenaltySum(sql, 1)
            - (IF Len(issues) > 3 THEN 5 ELSE 0)
            - (IF ~validated THEN 5 ELSE 0)
            + Bonus(<<"l", "i", "m", "i", "t">>) + Bonus(<<"i", "n", "d", "e", "x">>) + Bonus(<<"e", "x", "p", "l", "a", "i", "n">>)

IntMin(a, b) == IF a <= b THEN a ELSE b
IntMax(a, b) == IF a >= b THEN a ELSE b

\* a scorer without the final max(0, min(100, score))
score_unclamped(sql, issues, validated) == RawScore(sql, issues, validated)

calculate_performance_score(sql, issues, validated) ==
    IntMax(0, IntMin(100, RawScore(sql, issues, validated)))

get_performance_rating(score) ==
    IF score >= 90 THEN "Excellent"
    ELSE IF score >= 75 THEN "Good"
    ELSE IF score >= 60 THEN "Fair"
    ELSE IF score >= 40 THEN "Poor"
    ELSE "Critical"

---------------------------------------------------------------------------
(* Query inputs: the queries of test_analyzer.py, one query that triggers   *)
(* every penalty, one that earns every bonus, and every concatenation of   *)
(* at most MaxSqlFrags fragments                                           *)

\* SELECT * FROM orders WHERE company_id = 1
TestQuery1 ==
    << "S", "E", "L", "E", "C", "T", " ", "*", " ", "F", "R", "O", "M", " ", "o", "r",
       "d", "e", "r", "s", " ", "W", "H", "E", "R", "E", " ", "c", "o", "m", "p", "a",
       "n", "y", "_", "i", "d", " ", "=", " ", "1" >>

\* SELECT o.id, c.name FROM orders o JOIN customers c WHERE o.status = 'active'
TestQuery2 ==
    << "S", "E", "L", "E", "C", "T", " ", "o", ".", "i", "d", ",", " ", "c", ".", "n",
       "a", "m", "e", " ", "F", "R", "O", "M", " ", "o", "r", "d", "e", "r", "s", " ",
       "o", " ", "J", "O", "I", "N", " ", "c", "u", "s", "t", "o", "m", "e", "r", "s",
       " ", "c", " ", "W", "H", "E", "R", "E", " ", "o", ".", "s", "t", "a", "t", "u",
       "s", " ", "=", " ", "'", "a", "c", "t", "i", "v", "e", "'" >>

\* SELECT * FROM users WHERE email LIKE '%@gmail.com' ORDER BY created_at
TestQuery3 ==
    << "S", "E", "L", "E", "C", "T", " ", "*", " ", "F", "R", "O", "M", " ", "u", "s",
       "e", "r", "s", " ", "W", "H", "E", "R", "E", " ", "e", "m", "a", "i", "l", " ",
       "L", "I", "K", "E", " ", "'", "%", "@", "g", "m", "a", "i", "l", ".", "c", "o",
       "m", "'", " ", "O", "R", "D", "E", "R", " ", "B", "Y", " ", "c", "r", "e", "a",
       "t", "e", "d", "_", "a", "t" >>

\* SELECT * FROM orders WHERE customer_id IN (
\*                     SELECT id FROM customers WHERE city IN (
\*                         SELECT city FROM locations WHERE region = 'North'
\*                     )
\*                 ) AND product_id IN (
\*                     SELECT id FROM products WHERE category = 'electronics'
\*                 )
TestQuery4 ==
    << "S", "E", "L", "E", "C", "T", " ", "*", " ", "F", "R", "O", "M", " ", "o", "r",
       "d", "e", "r", "s", " ", "W", "H", "E", "R", "E", " ", "c", "u", "s", "t", "o",
       "m", "e", "r", "_", "i", "d", " ", "I", "N", " ", "(", "\n", " ", " ", " ", " ",
       " ", " ", " ", " ", " ", " ", " ", " ", " ", " ", " ", " ", " ", " ", " ", " ",
       "S", "E", "L", "E", "C", "T", " ", "i", "d", " ", "F", "R", "O", "M", " ", "c",
       "u", "s", "t", "o", "m", "e", "r", "s", " ", "W", "H", "E", "R", "E", " ", "c",
       "i", "t", "y", " ", "I", "N", " ", "(", "\n", " ", " ", " ", " ", " ", " ", " ",
       " ", " ", " ", " ", " ", " ", " ", " ", " ", " ", " ", " ", " ", " ", " ", " ",
       " ", "S", "E", "L", "E", "C", "T", " ", "c", "i", "t", "y", " ", "F", "R", "O",
       "M", " ", "l", "o", "c", "a", "t", "i", "o", "n", "s", " ", "W", "H", "E", "R",
       "E", " ", "r", "e", "g", "i", "o", "n", " ", "=", " ", "'", "N", "o", "r", "t",
       "h", "'", "\n", " ", " ", " ", " ", " ", " ", " ", " ", " ", " ", " ", " ", " ",
       " ", " ", " ", " ", " ", " ", " ", ")", "\n", " ", " ", " ", " ", " ", " ", " ",
       " ", " ", " ", " ", " ", " ", " ", " ", " ", ")", " ", "A", "N", "D", " ", "p",
       "r", "o", "d", "u", "c", "t", "_", "i", "d", " ", "I", "N", " ", "(", "\n", " ",
       " ", " ", " ", " ", " ", " ", " ", " ", " ", " ", " ", " ", " ", " ", " ", " ",
       " ", " ", " ", "S", "E", "L", "E", "C", "T", " ", "i", "d", " ", "F", "R", "O",
       "M", " ", "p", "r", "o", "d", "u", "c", "t", "s", " ", "W", "H", "E", "R", "E",
       " ", "c", "a", "t", "e", "g", "o", "r", "y", " ", "=", " ", "'", "e", "l", "e",
       "c", "t", "r", "o", "n", "i", "c", "s", "'", "\n", " ", " ", " ", " ", " ", " ",
       " ", " ", " ", " ", " ", " ", " ", " ", " ", " ", ")" >>

\* SELECT id, customer_name, total FROM orders WHERE status = 'completed' AND created_at >= '2023-01-01' LIMIT 100
TestQuery5 ==
    << "S", "E", "L", "E", "C", "T", " ", "i", "d", ",", " ", "c", "u", "s", "t", "o",
       "m", "e", "r", "_", "n", "a", "m", "e", ",", " ", "t", "o", "t", "a", "l", " ",
       "F", "R", "O", "M", " ", "o", "r", "d", "e", "r", "s", " ", "W", "H", "E", "R",
       "E", " ", "s", "t", "a", "t", "u", "s", " ", "=", " ", "'", "c", "o", "m", "p",
       "l", "e", "t", "e", "d", "'", " ", "A", "N", "D", " ", "c", "r", "e", "a", "t",
       "e", "d", "_", "a", "t", " ", ">", "=", " ", "'", "2", "0", "2", "3", "-", "0",
       "1", "-", "0", "1", "'", " ", "L", "I", "M", "I", "T", " ", "1", "0", "0" >>

\* SELECT * FROM a JOIN b WHERE c LIKE '%x' UNION SELECT DISTINCT d FROM e ORDER BY d
StressQuery ==
    << "S", "E", "L", "E", "C", "T", " ", "*", " ", "F", "R", "O", "M", " ", "a", " ",
       "J", "O", "I", "N", " ", "b", " ", "W", "H", "E", "R", "E", " ", "c", " ", "L",
       "I", "K", "E", " ", "'", "%", "x", "'", " ", "U", "N", "I", "O", "N", " ", "S",
       "E", "L", "E", "C", "T", " ", "D", "I", "S", "T", "I", "N", "C", "T", " ", "d",
       " ", "F", "R", "O", "M", " ", "e", " ", "O", "R", "D", "E", "R", " ", "B", "Y",
       " ", "d" >>

\* EXPLAIN SELECT id FROM t USE INDEX (i) GROUP BY id LIMIT 5
BonusQuery ==
    << "E", "X", "P", "L", "A", "I", "N", " ", "S", "E", "L", "E", "C", "T", " ", "i",
       "d", " ", "F", "R", "O", "M", " ", "t", " ", "U", "S", "E", " ", "I", "N", "D",
       "E", "X", " ", "(", "i", ")", " ", "G", "R", "O", "U", "P", " ", "B", "Y", " ",
       "i", "d", " ", "L", "I", "M", "I", "T", " ", "5" >>

\* pieces of SQL text, in mixed case and with runs of whitespace
SqlFragments ==
    << <<"S", "E", "L", "E", "C", "T", " ", "*", " ", "F", "R", "O", "M", " ", "t">>,
       <<"s", "e", "l", "e", "c", "t", " ", " ", "*", " ", " ", "f", "r", "o", "m", " ", "t">>,
       <<" ", "J", "O", "I", "N", " ", "u">>,
       <<" ", "o", "n", " ", "t", ".", "a", " ", "=", " ", "u", ".", "b">>,
       <<" ", "W", "H", "E", "R", "E", " ", "c", " ", "=", " ", "1">>,
       <<" ", "w", "h", "e", "r", "e", " ", "d", " ", "L", "I", "K", "E", " ", "'", "%", "x", "'">>,
       <<" ", "w", "h", "e", "r", "e", " ", "e", " ", "l", "i", "k", "e", " ", "'", "%", "@", "x", "'">>,
       <<" ", "w", "h", "e", "r", "e", " ", "f", " ", "l", "i", "k", "e", " ", "'", "x", "%", "'">>,
       <<" ", "L", "I", "M", "I", "T", " ", "5">>,
       <<" ", "o", "r", "d", "e", "r", "\t", "b", "y", " ", "c">>,
       <<" ", "D", "I", "S", "T", "I", "N", "C", "T">>,
       <<" ", "u", "n", "i", "o", "n", " ">> >>

MaxSqlFrags == 2
MaxIssues == 4

RECURSIVE Flatten(_)
Flatten(ss) == IF ss = << >> THEN << >> ELSE Head(ss) \o Flatten(Tail(ss))

\* the concatenations of at most n items of the sequence frags
Concatenations(frags, n) ==
    { Flatten([i \in DOMAIN pick |-> frags[pick[i]]]) :
        pick \in UNION { [1..k -> 1..Len(frags)] : k \in 0..n } }

TestQueries == {TestQuery1, TestQuery2, TestQuery3, TestQuery4, TestQuery5}

SqlInputs == TestQueries \cup {StressQuery, BonusQuery} \cup Concatenations(SqlFragments, MaxSqlFrags)

---------------------------------------------------------------------------
(* The analyzer and the scorer applied to one query                        *)

SqlIdle ==
    /\ q_pc = "off" /\ q_sql = << >> /\ q_validated = FALSE
    /\ q_issues = << >> /\ q_score = 0

\* issues = analyze_sql_issues(query)
SqlAnalyze ==
    /\ q_pc = "input"
    /\ q_issues' = analyze_sql_issues(q_sql)
    /\ q_pc' = "analyzed"
    /\ UNCHANGED << svc_vars, cls_vars, val_vars, q_sql, q_validated, q_score >>

\* performance_score = calculate_performance_score(query, issues, validated)
SqlScore ==
    /\ q_pc = "analyzed"
    /\ \E v \in BOOLEAN :
         /\ q_validated' = v
         /\ q_score' = calculate_performance_score(q_sql, q_issues, v)
    /\ q_pc' = "scored"
    /\ UNCHANGED << svc_vars, cls_vars, val_vars, q_sql, q_issues >>

\* calculate_performance_score called with any issue list
SqlScoreAny ==
    /\ q_pc = "input"
    /\ \E n \in 0..MaxIssues, v \in BOOLEAN :
         /\ q_issues' = [i \in 1..n |-> Issue("any", << >>)]
         /\ q_validated' = v
         /\ q_score' = calculate_performance_score(q_sql, q_issues', v)
    /\ q_pc' = "scored_any"
    /\ UNCHANGED << svc_vars, cls_vars, val_vars, q_sql >>

---------------------------------------------------------------------------
(* classify_query                                                          *)

\* the if/elif chain of classify_query over line_lower
ClassifyLowered(line_lower) ==
    LET Has(p) == Contains(line_lower, p)
    IN  IF Has(<<"d", "b", ":", ":", "s", "e", "l", "e", "c", "t">>) \/ Has(<<"d", "b", ":", ":", "s", "t", "a", "t", "e", "m", "e", "n", "t">>)
            THEN "Raw SQL (High Performance Risk)"
        ELSE IF Has(<<"d", "b", ":", ":", "r", "a", "w">>) THEN "Raw SQL with DB::raw (High Performance Risk)"
        ELSE IF Has(<<"d", "b", ":", ":", "t", "a", "b", "l", "e">>) THEN "Query Builder (Moderate Performance Risk)"
        ELSE IF Has(<<"d", "b", ":", ":", "c", "o", "n", "n", "e", "c", "t", "i", "o", "n">>) THEN "Query Builder with Custom Connection"
        ELSE IF Has(<<"-", ">", "w", "h", "e", "r", "e">>) /\ Has(<<":", ":">>) THEN "Eloquent ORM (Lower Performance Risk)"
        ELSE IF Has(<<"-", ">", "g", "e", "t", "(", ")">>) THEN "Eloquent Collection (Memory Intensive)"
        ELSE IF Has(<<"-", ">", "p", "a", "g", "i", "n", "a", "t", "e">>) THEN "Eloquent Pagination (Good Performance)"
        ELSE IF Has(<<"-", ">", "c", "h", "u", "n", "k">>) THEN "Eloquent Chunking (Good for Large Datasets)"
        ELSE IF Has(<<"-", ">", "w", "i", "t", "h", "(">>) THEN "Eloquent Eager Loading (Good Performance)"
        ELSE IF Has(<<"-", ">", "l", "o", "a", "d", "(">>) THEN "Eloquent Lazy Loading (Potential N+1)"
        ELSE IF Has(<<"-", ">", "j", "o", "i", "n", "(">>) THEN "Eloquent Join (Moderate Performance Risk)"
        ELSE IF Has(<<"-", ">", "l", "e", "f", "t", "j", "o", "i", "n", "(">>) THEN "Eloquent Left Join (Moderate Performance Risk)"
        ELSE IF Has(<<"-", ">", "c", "o", "u", "n", "t", "(">>) THEN "Eloquent Count (Good Performance)"
        ELSE IF Has(<<"-", ">", "s", "u", "m", "(">>) \/ Has(<<"-", ">", "a", "v", "g", "(">>) THEN "Eloquent Aggregation (Good Performance)"
        ELSE IF Has(<<"-", ">", "w", "h", "e", "r", "e", "h", "a", "s", "(">>) THEN "Eloquent WhereHas (Potential Performance Issue)"
        ELSE IF Has(<<"-", ">", "w", "h", "e", "r", "e", "d", "o", "e", "s", "n", "t", "h", "a", "v", "e", "(">>)
            THEN "Eloquent WhereDoesntHave (Potential Performance Issue)"
        ELSE "Unknown Query Type"

\* a classifier that forgets to lower-case the line
classify_query_case_sensitive(code_line) == ClassifyLowered(code_line)

classify_query(code_line) == ClassifyLowered(lower(code_line))

\* pieces of PHP source lines, in the case the framework writes them
LineFragments ==
    << <<"D", "B", ":", ":", "s", "e", "l", "e", "c", "t", "(">>, <<"D", "B", ":", ":", "s", "t", "a", "t", "e", "m", "e", "n", "t", "(">>, <<"D", "B", ":", ":", "r", "a", "w", "(">>, <<"D", "B", ":", ":", "t", "a", "b", "l", "e", "(">>,
       <<"d", "b", ":", ":", "c", "o", "n", "n", "e", "c", "t", "i", "o", "n", "(">>, <<"-", ">", "w", "h", "e", "r", "e", "(">>, <<"U", "s", "e", "r", ":", ":">>, <<"-", ">", "g", "e", "t", "(", ")">>,
       <<"-", ">", "p", "a", "g", "i", "n", "a", "t", "e", "(">>, <<"-", ">", "c", "h", "u", "n", "k", "(">>, <<"-", ">", "w", "i", "t", "h", "(">>, <<"-", ">", "l", "o", "a", "d", "(">>,
       <<"-", ">", "j", "o", "i", "n", "(">>, <<"-", ">", "l", "e", "f", "t", "J", "o", "i", "n", "(">>, <<"-", ">", "c", "o", "u", "n", "t", "(">>, <<"-", ">", "s", "u", "m", "(">>,
       <<"-", ">", "a", "v", "g", "(">>, <<"-", ">", "w", "h", "e", "r", "e", "H", "a", "s", "(">>, <<"-", ">", "w", "h", "e", "r", "e", "D", "o", "e", "s", "n", "t", "H", "a", "v", "e", "(">>, <<"$", "q">> >>

MaxLineFrags == 2

LineInputs == Concatenations(LineFragments, MaxLineFrags)

ClsIdle == c_pc = "off" /\ c_line = << >> /\ c_result = ""

\* "query_type": classify_query(top["text"])
Classify ==
    /\ c_pc = "input"
    /\ c_result' = classify_query(c_line)
    /\ c_pc' = "classified"
    /\ UNCHANGED << svc_vars, sql_vars, val_vars, c_line >>

---------------------------------------------------------------------------
(* check_input_validation and suggest_improvements                         *)

\* what open(file_path).readlines() gives: the lines of the file, or a failure
Unreadable == [ok |-> FALSE, lines |-> << >>]
Readable(lines) == [ok |-> TRUE, lines |-> lines]

ValidationPatterns ==
    << <<"v", "a", "l", "i", "d", "a", "t", "e", "(">>, <<"f", "o", "r", "m", "r", "e", "q", "u", "e", "s", "t">>, <<"r", "e", "q", "u", "e", "s", "t", "-", ">", "v", "a", "l", "i", "d", "a", "t", "e">>,
       <<"v", "a", "l", "i", "d", "a", "t", "o", "r", ":", ":", "m", "a", "k", "e">>, <<"-", ">", "r", "u", "l", "e", "s", "(">>, <<"-", ">", "m", "e", "s", "s", "a", "g", "e", "s", "(">> >>

SecurityPatterns ==
    << <<"e", "s", "c", "a", "p", "e", "(">>, <<"h", "t", "m", "l", "s", "p", "e", "c", "i", "a", "l", "c", "h", "a", "r", "s">>, <<"s", "t", "r", "i", "p", "_", "t", "a", "g", "s">>,
       <<"f", "i", "l", "t", "e", "r", "_", "v", "a", "r">>, <<"p", "r", "e", "g", "_", "r", "e", "p", "l", "a", "c", "e">> >>

\* the patterns of pats, from the p-th on, that re.search finds in line
RECURSIVE PatternHits(_, _, _)
PatternHits(pats, line, p) ==
    IF p > Len(pats) THEN << >>
    ELSE (IF Contains(line, pats[p]) THEN << p >> ELSE << >>)
         \o PatternHits(pats, line, p + 1)

\* one iteration of the loop over the window, for the 0-based index i
ValidationOfLine(lines, i) ==
    LET raw == strip(lines[i + 1])
        line == lower(raw)
        vhits == PatternHits(ValidationPatterns, line, 1)
        shits == PatternHits(SecurityPatterns, line, 1)
        superglobal == \E k \in {<<"$", "_", "g", "e", "t">>, <<"$", "_", "p", "o", "s", "t">>, <<"$", "_", "r", "e", "q", "u", "e", "s", "t">>} : Contains(line, k)
        secured == \E k \in {<<"v", "a", "l", "i", "d", "a", "t", "e">>, <<"e", "s", "c", "a", "p", "e">>, <<"f", "i", "l", "t", "e", "r">>} : Contains(line, k)
    IN  [validated |-> vhits # << >>,
         validation_methods |->
             [k \in 1..Len(vhits) |-> [line |-> i + 1, security |-> FALSE, text |-> raw]]
             \o [k \in 1..Len(shits) |-> [line |-> i + 1, security |-> TRUE, text |-> raw]],
         security_issues |->
             IF superglobal /\ ~secured THEN << [line |-> i + 1] >> ELSE << >>]

\* for i in range(start_line, end_line), from i on
RECURSIVE ValidationOfWindow(_, _, _)
ValidationOfWindow(lines, i, end_line) ==
    IF i >= end_line
    THEN [validated |-> FALSE, validation_methods |-> << >>, security_issues |-> << >>]
    ELSE LET here == ValidationOfLine(lines, i)
             rest == ValidationOfWindow(lines, i + 1, end_line)
         IN  [validated |-> here.validated \/ rest.validated,
              validation_methods |-> here.validation_methods \o rest.validation_methods,
              security_issues |-> here.security_issues \o rest.security_issues]

\* start_line = max(0, line_number - 20); end_line = min(len(lines), line_number + 20)
WindowStart(line_number) == IntMax(0, line_number - 20)
WindowEnd(lines, line_number) == IntMin(Len(lines), line_number + 20)

check_input_validation(read, line_number) ==
    IF ~read.ok
    THEN [validated |-> FALSE, validation_methods |-> << >>, security_issues |-> << >>]
    ELSE ValidationOfWindow(read.lines, WindowStart(line_number),
                            WindowEnd(read.lines, line_number))

\* the files an analysis may find at the matched path
FileReads ==
    { Unreadable,
      Readable(<< <<"$", "d", "a", "t", "a", " ", "=", " ", "$", "r", "e", "q", "u", "e", "s", "t", "-", ">", "v", "a", "l", "i", "d", "a", "t", "e", "(", "$", "r", "u", "l", "e", "s", ")", ";">>, <<"$", "r", "o", "w", "s", " ", "=", " ", "D", "B", ":", ":", "s", "e", "l", "e", "c", "t", "(", "$", "s", "q", "l", ")", ";">> >>),
      Readable(<< <<"$", "i", "d", " ", "=", " ", "$", "_", "G", "E", "T", "[", "'", "i", "d", "'", "]", ";">>, <<"e", "c", "h", "o", " ", "h", "t", "m", "l", "s", "p", "e", "c", "i", "a", "l", "c", "h", "a", "r", "s", "(", "$", "i", "d", ")", ";">> >>),
      Readable(<< <<"$", "r", "o", "w", "s", " ", "=", " ", "D", "B", ":", ":", "s", "e", "l", "e", "c", "t", "(", "$", "s", "q", "l", ")", ";">> >>) }

\* the suggestion list: fixed tips are named by their topic, issues are kept
suggest_improvements(query, input_validated, issues, validation_methods, security_issues) ==
    LET query_lower == lower(query)
        Has(p) == Contains(query_lower, p)
        Tips(c, topic) == IF c THEN << [tip |-> topic], [tip |-> topic] >> ELSE << >>
        FirstThree(xs) == SubSeq(xs, 1, IntMin(3, Len(xs)))
        Found(xs, topic) ==
            IF xs # << >> THEN << [tip |-> topic, items |-> FirstThree(xs)] >> ELSE << >>
    IN  Tips(~input_validated, "security")
        \o Found(validation_methods, "validation_found")
        \o Found(security_issues, "security_issues")
        \o [k \in 1..Len(issues) |-> [tip |-> issues[k].rule]]
        \o Tips(Has(<<"s", "e", "l", "e", "c", "t", " ", "*">>), "performance")
        \o Tips(Has(<<"j", "o", "i", "n">>), "joins")
        \o Tips(Has(<<"w", "h", "e", "r", "e">>) /\ ~Has(<<"l", "i", "m", "i", "t">>), "pagination")
        \o Tips(Has(<<"o", "r", "d", "e", "r", " ", "b", "y">>), "sorting")
        \o Tips(TRUE, "caching") \o Tips(TRUE, "database")
        \o Tips(TRUE, "code") \o << [tip |-> "code"] >>


\* the 1-based numbers of the lines the loop visits: for i in range(start_line,
\* end_line) reads lines[i] and reports it as line i + 1
ScannedLines(read, line_number) ==
    { i + 1 : i \in WindowStart(line_number)..(WindowEnd(read.lines, line_number) - 1) }

\* lines of a PHP file, as readlines() returns them
PlainLine == <<"\n">>
ValidatingLine == <<" ", " ", " ", " ", "$", "d", "a", "t", "a", " ", "=", " ", "$", "r", "e", "q", "u", "e", "s", "t", "-", ">", "v", "a", "l", "i", "d", "a", "t", "e", "(", "$", "r", "u", "l", "e", "s", ")", ";", "\n">>
EscapingLine == <<" ", " ", " ", " ", "e", "c", "h", "o", " ", "h", "t", "m", "l", "s", "p", "e", "c", "i", "a", "l", "c", "h", "a", "r", "s", "(", "$", "i", "d", ")", ";", "\n">>
SuperglobalLine == <<" ", " ", " ", " ", "$", "i", "d", " ", "=", " ", "$", "_", "G", "E", "T", "[", "'", "i", "d", "'", "]", ";", "\n">>

MarkedLines == { ValidatingLine, EscapingLine, SuperglobalLine }

MaxFileLines == 42

\* the lengths of the files: the shortest ones and the longest ones
FileLengths == { 1, 2, MaxFileLines - 1, MaxFileLines }

\* a file of n lines, blank but for the line p
FileWith(n, p, marked) == Readable([k \in 1..n |-> IF k = p THEN marked ELSE PlainLine])

\* the calls check_input_validation(top['file'], top['line']): a file and the
\* 1-based number of one of its lines, or a file that cannot be read
ValidatorInputs ==
    { << FileWith(npl[1], npl[2], marked), npl[3] >> :
        npl \in { x \in FileLengths \X (1..MaxFileLines) \X (1..MaxFileLines) :
                      x[2] <= x[1] /\ x[3] <= x[1] },
        marked \in MarkedLines }
    \cup { << Unreadable, 1 >> }

ValIdle ==
    /\ v_pc = "off" /\ v_read = Unreadable /\ v_line = 0
    /\ v_result = [validated |-> FALSE, validation_methods |-> << >>,
                   security_issues |-> << >>]

\* validated, validation_methods, security_issues = check_input_validation(...)
Validate ==
    /\ v_pc = "input"
    /\ v_result' = check_input_validation(v_read, v_line)
    /\ v_pc' = "validated"
    /\ UNCHANGED << svc_vars, sql_vars, cls_vars, v_read, v_line >>
---------------------------------------------------------------------------
(* The embedding index and the similarity matcher                          *)

\* source lines index_codebase may extract: (file, 1-based line, stripped text);
\* the first and the third hold the same text in different files
LineText1 == <<"D", "B", ":", ":", "s", "e", "l", "e", "c", "t", "(", "$", "s", "q", "l", ")">>
LineText2 == <<"$", "u", "-", ">", "w", "h", "e", "r", "e", "(", "'", "i", "d", "'", ",", " ", "1", ")", "-", ">", "g", "e", "t", "(", ")">>

CandidateLines ==
    << [file |-> "app/A.php", line |-> 1, text |-> LineText1],
       [file |-> "app/A.php", line |-> 2, text |-> LineText2],
       [file |-> "app/B.php", line |-> 1, text |-> LineText1] >>

MaxLines == 2

\* the results of index_codebase: lines in traversal order, at most MaxLines
Extractions ==
    { [i \in 1..Cardinality(keep) |->
          CandidateLines[CHOOSE k \in keep : Cardinality({j \in keep : j < k}) = i - 1]] :
        keep \in {K \in SUBSET (1..Len(CandidateLines)) : Cardinality(K) <= MaxLines} }

\* request.json["sql"]: missing or empty, or the text of a source line
Queries == { << >>, LineText1, LineText2 }

\* embedding vectors (model.encode), two-dimensional and non-zero
Vectors == { << 1, 0 >>, << 2, 0 >>, << 0, 1 >>, << -1, 1 >> }

EmbeddedTexts == { LineText1, LineText2 }

Dot(u, v) == u[1] * v[1] + u[2] * v[2]

\* cosine_similarity of two vectors, kept exact as sign(c) * c^2 = n / d for
\* the cosine c: a strictly increasing function of c
Cosine(u, v) ==
    LET dot == Dot(u, v)
    IN  [n |-> IF dot >= 0 THEN dot * dot ELSE -(dot * dot), d |-> Dot(u, u) * Dot(v, v)]

SimLess(a, b) == a.n * b.d < b.n * a.d
SimEq(a, b) == a.n * b.d = b.n * a.d

\* cosine_similarity([query_embedding], [l["embedding"] for l in index])[0]
Similarities(query_embedding, index) ==
    [i \in 1..Len(index) |-> Cosine(query_embedding, index[i].embedding)]

\* numpy argmax: the first position of the largest value (positions from 1)
RECURSIVE ArgmaxFrom(_, _, _)
ArgmaxFrom(sims, i, best) ==
    IF i > Len(sims) THEN best
    ELSE IF SimLess(sims[best], sims[i]) THEN ArgmaxFrom(sims, i + 1, i)
    ELSE ArgmaxFrom(sims, i + 1, best)

\* an argmax that keeps the last position of the largest value
RECURSIVE ArgmaxLastFrom(_, _, _)
ArgmaxLastFrom(sims, i, best) ==
    IF i > Len(sims) THEN best
    ELSE IF SimLess(sims[i], sims[best]) THEN ArgmaxLastFrom(sims, i + 1, best)
    ELSE ArgmaxLastFrom(sims, i + 1, i)

argmax_last(sims) == ArgmaxLastFrom(sims, 2, 1)

argmax(sims) == ArgmaxFrom(sims, 2, 1)

\* a zip that pairs the lines with the embeddings in reverse order
zip_reversed(lines, all_embeddings) ==
    [i \in 1..IntMin(Len(lines), Len(all_embeddings)) |->
        [file |-> lines[i].file, line |-> lines[i].line, text |-> lines[i].text,
         embedding |-> all_embeddings[Len(all_embeddings) + 1 - i]]]

\* [dict(entry, embedding=emb) for entry, emb in zip(lines, all_embeddings)]
ZipIndex(lines, all_embeddings) ==
    [i \in 1..IntMin(Len(lines), Len(all_embeddings)) |->
        [file |-> lines[i].file, line |-> lines[i].line, text |-> lines[i].text,
         embedding |-> all_embeddings[i]]]

\* the snapshot file
NoSnapshot == [state |-> "absent", data |-> << >>]
Snapshot(index) == [state |-> "saved", data |-> index]
TruncatedSnapshot == [state |-> "truncated", data |-> << >>]

batch_size == 50

MaxBatches == 2

\* numbers of extracted lines around the batch borders: 1, and one less than,
\* exactly and one more than each multiple of batch_size up to MaxBatches
BatchLengths ==
    {1} \cup { k * batch_size + d : k \in 1..MaxBatches, d \in {-1, 0, 1} }

\* the result of index_codebase on a code base with n SQL-related lines, of
\* which line m alone holds the first text
LargeExtraction(n, m) ==
    [i \in 1..n |-> [file |-> "app/A.php", line |-> i,
                     text |-> IF i = m THEN LineText1 ELSE LineText2]]

LargeExtractions ==
    { LargeExtraction(n, m) : n \in BatchLengths, m \in BatchLengths } \ {<< >>}

---------------------------------------------------------------------------
(* The /embed handler, embed_codebase, one step per access to the shared   *)
(* state (the global index, the snapshot file).  b_old is a history        *)
(* variable, not a variable of the program: the specification of one       *)
(* request at a time records in it the index held when the build was       *)
(* called; the three actions that start a build leave it to the            *)
(* specification.                                                          *)

g_vars == << indexed_lines, cache, embed >>
b_vars == << bpc, b_lines, b_embs, b_i, b_old, b_resp >>
a_vars == << apc, a_query, a_cached, a_sims, a_top_idx, a_src, a_resp >>

NoResp == [status |-> 0]
Error(status, error) == [status |-> status, error |-> error]

BuildIdle ==
    /\ bpc = "idle" /\ b_lines = << >> /\ b_embs = << >> /\ b_i = 0
    /\ b_old = << >> /\ b_resp = NoResp

AnalyzeIdle ==
    /\ apc = "idle" /\ a_query = << >> /\ a_cached = << >> /\ a_sims = << >>
    /\ a_top_idx = 0 /\ a_src = << >> /\ a_resp = NoResp

\* if not user_path or not os.path.exists(user_path): 400
BuildInvalidPath ==
    /\ bpc = "idle"
    /\ b_resp' = Error(400, "Invalid Laravel path")
    /\ bpc' = "done"
    /\ UNCHANGED << sql_vars, cls_vars, val_vars, g_vars, a_vars, b_lines, b_embs, b_i >>

\* lines = index_codebase(user_path); if not lines: 400
BuildNoLines ==
    /\ bpc = "idle"
    /\ b_resp' = Error(400, "No SQL-related code found in the specified path")
    /\ bpc' = "done"
    /\ UNCHANGED << sql_vars, cls_vars, val_vars, g_vars, a_vars, b_lines, b_embs, b_i >>

\* lines = index_codebase(user_path), not empty; all_embeddings = []
BuildBegin ==
    /\ bpc = "idle"
    /\ \E lines \in Extractions \ {<< >>} : b_lines' = lines
    /\ b_embs' = << >>
    /\ b_i' = 0
    /\ bpc' = "embed"
    /\ UNCHANGED << sql_vars, cls_vars, val_vars, g_vars, a_vars, b_resp >>

\* lines = index_codebase(user_path) on a code base of more lines than one
\* batch holds; all_embeddings = []
BuildBeginLarge ==
    /\ bpc = "idle"
    /\ \E lines \in LargeExtractions : b_lines' = lines
    /\ b_embs' = << >>
    /\ b_i' = 0
    /\ bpc' = "embed"
    /\ UNCHANGED << sql_vars, cls_vars, val_vars, g_vars, a_vars, b_resp >>

\* an iteration that puts the embeddings of its batch before the earlier ones
build_batch_prepending ==
    /\ bpc = "embed"
    /\ b_i < Len(b_lines)
    /\ LET batch == SubSeq(b_lines, b_i + 1, IntMin(b_i + batch_size, Len(b_lines)))
       IN  b_embs' = [k \in 1..Len(batch) |-> embed[batch[k].text]] \o b_embs
    /\ b_i' = b_i + batch_size
    /\ UNCHANGED << sql_vars, cls_vars, val_vars, g_vars, a_vars, bpc, b_lines, b_old, b_resp >>

\* one iteration of: for i in range(0, len(texts), batch_size)
BuildBatch ==
    /\ bpc = "embed"
    /\ b_i < Len(b_lines)
    /\ LET batch == SubSeq(b_lines, b_i + 1, IntMin(b_i + batch_size, Len(b_lines)))
       IN  b_embs' = b_embs \o [k \in 1..Len(batch) |-> embed[batch[k].text]]
    /\ b_i' = b_i + batch_size
    /\ UNCHANGED << sql_vars, cls_vars, val_vars, g_vars, a_vars, bpc, b_lines, b_old, b_resp >>

\* model.encode(batch) raises: the request fails with 500
BuildBatchFails ==
    /\ bpc = "embed"
    /\ b_i < Len(b_lines)
    /\ b_resp' = Error(500, "encode failed")
    /\ bpc' = "done"
    /\ UNCHANGED << sql_vars, cls_vars, val_vars, g_vars, a_vars, b_lines, b_embs, b_i, b_old >>

\* indexed_lines = [dict(entry, embedding=emb) for ... in zip(lines, all_embeddings)]
BuildSwap ==
    /\ bpc = "embed"
    /\ b_i >= Len(b_lines)
    /\ indexed_lines' = ZipIndex(b_lines, b_embs)
    /\ bpc' = "save"
    /\ UNCHANGED << sql_vars, cls_vars, val_vars, cache, embed, a_vars, b_lines, b_embs, b_i, b_old, b_resp >>

\* save_cache(indexed_lines)
BuildSave ==
    /\ bpc = "save"
    /\ cache' = Snapshot(indexed_lines)
    /\ bpc' = "reply"
    /\ UNCHANGED << sql_vars, cls_vars, val_vars, indexed_lines, embed, a_vars, b_lines, b_embs, b_i, b_old, b_resp >>

\* save_cache raises: open() fails and leaves the file as it was, or
\* pickle.dump fails after open() has truncated the file
BuildSaveFails ==
    /\ bpc = "save"
    /\ cache' \in {cache, TruncatedSnapshot}
    /\ b_resp' = Error(500, "save failed")
    /\ bpc' = "done"
    /\ UNCHANGED << sql_vars, cls_vars, val_vars, indexed_lines, embed, a_vars, b_lines, b_embs, b_i, b_old >>

\* return jsonify({"status": "Indexed", "count": len(indexed_lines)})
BuildReply ==
    /\ bpc = "reply"
    /\ b_resp' = [status |-> 200, count |-> Len(indexed_lines)]
    /\ bpc' = "done"
    /\ UNCHANGED << sql_vars, cls_vars, val_vars, g_vars, a_vars, b_lines, b_embs, b_i, b_old >>

\* the response is sent and the request is over
BuildReturn ==
    /\ bpc = "done"
    /\ bpc' = "idle" /\ b_lines' = << >> /\ b_embs' = << >> /\ b_i' = 0
    /\ b_old' = << >> /\ b_resp' = NoResp
    /\ UNCHANGED << sql_vars, cls_vars, val_vars, g_vars, a_vars >>

---------------------------------------------------------------------------
(* The /analyze handler, analyze, one step per read of the global index.   *)
(* a_src is a history variable: the index the similarity vector was        *)
(* computed from.  A step that builds the response ends the handler, and   *)
(* the locals (cached, similarities, top_idx) end with it.                 *)

\* the locals of analyze after its return
AnalyzeLocalsGone ==
    a_cached' = << >> /\ a_sims' = << >> /\ a_top_idx' = 0 /\ a_src' = << >>

\* query = data.get("sql"); if not query: 400
AnalyzeBegin ==
    /\ apc = "idle"
    /\ \E query \in Queries :
         /\ a_query' = query
         /\ IF query = << >>
            THEN a_resp' = Error(400, "Query required") /\ apc' = "done"
            ELSE a_resp' = a_resp /\ apc' = "check"
    /\ UNCHANGED << sql_vars, cls_vars, val_vars, g_vars, b_vars, a_cached, a_sims, a_top_idx, a_src >>

\* if not indexed_lines:
AnalyzeCheck ==
    /\ apc = "check"
    /\ apc' = IF indexed_lines = << >> THEN "load" ELSE "similarity"
    /\ UNCHANGED << sql_vars, cls_vars, val_vars, g_vars, b_vars, a_query, a_cached, a_sims, a_top_idx, a_src, a_resp >>

\* load_cache(): None without a file, the pickled index of a saved one
load_cache == IF cache.state = "saved" THEN cache.data ELSE << >>

\* cached = load_cache()
AnalyzeLoad ==
    /\ apc = "load"
    /\ cache.state # "truncated"
    /\ a_cached' = load_cache
    /\ apc' = "restore"
    /\ UNCHANGED << sql_vars, cls_vars, val_vars, g_vars, b_vars, a_query, a_sims, a_top_idx, a_src, a_resp >>

\* pickle.load raises on a truncated file: the request fails with 500
AnalyzeLoadFails ==
    /\ apc = "load"
    /\ cache.state = "truncated"
    /\ a_resp' = Error(500, "load failed")
    /\ apc' = "done"
    /\ AnalyzeLocalsGone
    /\ UNCHANGED << sql_vars, cls_vars, val_vars, g_vars, b_vars, a_query >>

\* a restore that goes on without assigning the global
restore_without_assignment ==
    /\ apc = "restore"
    /\ a_cached # << >>
    /\ apc' = "similarity"
    /\ UNCHANGED << sql_vars, cls_vars, val_vars, g_vars, b_vars, a_query, a_cached, a_sims, a_top_idx, a_src, a_resp >>

\* if cached: indexed_lines = cached
AnalyzeRestore ==
    /\ apc = "restore"
    /\ a_cached # << >>
    /\ indexed_lines' = a_cached
    /\ apc' = "similarity"
    /\ UNCHANGED << sql_vars, cls_vars, val_vars, cache, embed, b_vars, a_query, a_cached, a_sims, a_top_idx, a_src, a_resp >>

\* else: return 400 "Codebase not indexed yet."
AnalyzeNotIndexed ==
    /\ apc = "restore"
    /\ a_cached = << >>
    /\ a_resp' = Error(400, "Codebase not indexed yet.")
    /\ apc' = "done"
    /\ AnalyzeLocalsGone
    /\ UNCHANGED << sql_vars, cls_vars, val_vars, g_vars, b_vars, a_query >>

\* query_embedding = model.encode([query])[0]; similarities = cosine_similarity(...)[0];
\* top_idx = similarities.argmax().  a_src records the index the vector was computed from
AnalyzeSimilarity ==
    /\ apc = "similarity"
    /\ indexed_lines # << >>
    /\ a_sims' = Similarities(embed[a_query], indexed_lines)
    /\ a_top_idx' = argmax(a_sims')
    /\ a_src' = indexed_lines
    /\ apc' = "lookup"
    /\ UNCHANGED << sql_vars, cls_vars, val_vars, g_vars, b_vars, a_query, a_cached, a_resp >>

\* model.encode raises, or cosine_similarity raises on an empty index: 500
AnalyzeSimilarityFails ==
    /\ apc = "similarity"
    /\ a_resp' = Error(500, IF indexed_lines = << >> THEN "empty index" ELSE "encode failed")
    /\ apc' = "done"
    /\ AnalyzeLocalsGone
    /\ UNCHANGED << sql_vars, cls_vars, val_vars, g_vars, b_vars, a_query >>

\* return jsonify({...})
Response(top, similarity_score, v, suggestions, performance_score) ==
    [status |-> 200,
     found |-> TRUE,
     match |-> [file |-> top.file, line |-> top.line, code |-> top.text,
                similarity |-> similarity_score,
                query_type |-> classify_query(top.text)],
     validated |-> v.validated,
     validation_methods |-> v.validation_methods,
     security_issues |-> v.security_issues,
     suggestions |-> suggestions,
     performance_score |-> performance_score,
     performance_rating |-> get_performance_rating(performance_score)]

\* suggestions = suggest_improvements(...); performance_score = calculate_...(...)
Composed(query, top, similarity_score, v, issues) ==
    Response(top, similarity_score, v,
             suggest_improvements(query, v.validated, issues,
                                  v.validation_methods, v.security_issues),
             calculate_performance_score(query, issues, v.validated))

\* the response of a served query, for the entry top and the file read at top["file"]:
\* validated, ... = check_input_validation(...); issues = analyze_sql_issues(query)
AnalysisResult(query, top, similarity_score, read) ==
    Composed(query, top, similarity_score,
             check_input_validation(read, top.line), analyze_sql_issues(query))

\* top = indexed_lines[top_idx]; similarity_score = float(similarities[top_idx]);
\* then the validator, the analyzer, the composer and the scorer.  A position
\* beyond the end of the index raises IndexError: the request fails with 500
AnalyzeLookup ==
    /\ apc = "lookup"
    /\ IF a_top_idx <= Len(indexed_lines)
       THEN \E read \in FileReads :
               a_resp' = AnalysisResult(a_query, indexed_lines[a_top_idx],
                                        a_sims[a_top_idx], read)
       ELSE a_resp' = Error(500, "IndexError")
    /\ apc' = "done"
    /\ AnalyzeLocalsGone
    /\ UNCHANGED << sql_vars, cls_vars, val_vars, g_vars, b_vars, a_query >>

\* the response is sent and the request is over
AnalyzeReturn ==
    /\ apc = "done"
    /\ apc' = "idle" /\ a_query' = << >> /\ a_resp' = NoResp
    /\ UNCHANGED << sql_vars, cls_vars, val_vars, g_vars, b_vars, a_cached, a_sims, a_top_idx, a_src >>

---------------------------------------------------------------------------
(* Specifications                                                          *)

\* the index a build over lines produces with the model's embedding
IndexOf(lines) == ZipIndex(lines, [i \in 1..Len(lines) |-> embed[lines[i].text]])

\* process start: the index is empty; the snapshot file is whatever an earlier
\* run of the service left behind
Init ==
    /\ embed \in [EmbeddedTexts -> Vectors]
    /\ indexed_lines = << >>
    /\ cache \in {NoSnapshot, TruncatedSnapshot}
                 \cup {Snapshot(IndexOf(lines)) : lines \in Extractions \ {<< >>}}
    /\ BuildIdle /\ AnalyzeIdle /\ SqlIdle /\ ClsIdle /\ ValIdle

\* one request at a time: a request starts when no other is being served
Next ==
    \/ (apc = "idle" /\ BuildInvalidPath /\ b_old' = indexed_lines)
    \/ (apc = "idle" /\ BuildNoLines /\ b_old' = indexed_lines)
    \/ (apc = "idle" /\ BuildBegin /\ b_old' = indexed_lines)
    \/ BuildBatch \/ BuildBatchFails \/ BuildSwap
    \/ BuildSave \/ BuildSaveFails \/ BuildReply \/ BuildReturn
    \/ (bpc = "idle" /\ AnalyzeBegin)
    \/ AnalyzeCheck \/ AnalyzeLoad \/ AnalyzeLoadFails \/ AnalyzeRestore
    \/ AnalyzeNotIndexed \/ AnalyzeSimilarity \/ AnalyzeSimilarityFails
    \/ AnalyzeLookup \/ AnalyzeReturn

Spec == Init /\ [][Next]_vars

\* one embedding, under which the two line texts are orthogonal
SampleEmbedding == [t \in EmbeddedTexts |-> IF t = LineText1 THEN << 1, 0 >> ELSE << 0, 1 >>]

\* the threaded server at some moment of its life: the index and the snapshot
\* are those of the last build, if there was one
InitConc ==
    /\ embed = SampleEmbedding
    /\ \E lines \in Extractions :
           /\ indexed_lines = IndexOf(lines)
           /\ cache = IF lines = << >> THEN NoSnapshot ELSE Snapshot(indexed_lines)
    /\ BuildIdle /\ AnalyzeIdle /\ SqlIdle /\ ClsIdle /\ ValIdle

\* one build and one analysis, served at the same time by two threads
NextConc ==
    \/ (BuildInvalidPath /\ UNCHANGED b_old)
    \/ (BuildNoLines /\ UNCHANGED b_old)
    \/ (BuildBegin /\ UNCHANGED b_old)
    \/ BuildBatch \/ BuildBatchFails \/ BuildSwap
    \/ BuildSave \/ BuildSaveFails \/ BuildReply
    \/ AnalyzeBegin
    \/ AnalyzeCheck \/ AnalyzeLoad \/ AnalyzeLoadFails \/ AnalyzeRestore
    \/ AnalyzeNotIndexed \/ AnalyzeSimilarity \/ AnalyzeSimilarityFails
    \/ AnalyzeLookup

SpecConc == InitConc /\ [][NextConc]_vars

\* the analyzer and the scorer on every query input
InitSql ==
    /\ q_pc = "input" /\ q_sql \in SqlInputs /\ q_validated = FALSE
    /\ q_issues = << >> /\ q_score = 0
    /\ embed = SampleEmbedding
    /\ indexed_lines = << >> /\ cache = NoSnapshot
    /\ BuildIdle /\ AnalyzeIdle /\ ClsIdle /\ ValIdle

NextSql == SqlAnalyze \/ SqlScore \/ SqlScoreAny

SpecSql == InitSql /\ [][NextSql]_vars

\* the classifier on every line input
InitClassify ==
    /\ c_pc = "input" /\ c_line \in LineInputs /\ c_result = ""
    /\ embed = SampleEmbedding
    /\ indexed_lines = << >> /\ cache = NoSnapshot
    /\ BuildIdle /\ AnalyzeIdle /\ SqlIdle /\ ValIdle

NextClassify == Classify

SpecClassify == InitClassify /\ [][NextClassify]_vars


\* the context validator on every file and line number
InitValidate ==
    /\ v_pc = "input"
    /\ \E input \in ValidatorInputs : v_read = input[1] /\ v_line = input[2]
    /\ v_result = [validated |-> FALSE, validation_methods |-> << >>,
                   security_issues |-> << >>]
    /\ embed = SampleEmbedding
    /\ indexed_lines = << >> /\ cache = NoSnapshot
    /\ BuildIdle /\ AnalyzeIdle /\ SqlIdle /\ ClsIdle

NextValidate == Validate

SpecValidate == InitValidate /\ [][NextValidate]_vars

\* one build over a large code base, from any state an earlier build left
NextBatch ==
    \/ (BuildBeginLarge /\ UNCHANGED b_old)
    \/ BuildBatch \/ BuildBatchFails \/ BuildSwap
    \/ BuildSave \/ BuildSaveFails \/ BuildReply

SpecBatch == InitConc /\ [][NextBatch]_vars

---------------------------------------------------------------------------
(* Properties                                                              *)

HasIssue(issues, rule) == \E k \in DOMAIN issues : issues[k].rule = rule

NotReady == Error(400, "Codebase not indexed yet.")

\* the cosine of an angle of zero
One == [n |-> 1, d |-> 1]

\* the similarity of the query being served to entry j of the index
SimTo(j) == Cosine(embed[a_query], indexed_lines[j].embedding)

\* an analysis has produced a match
Served == apc = "done" /\ a_resp.status = 200

\* the match of the response resp is the entry e
MatchOf(resp, e) ==
    /\ resp.match.file = e.file
    /\ resp.match.line = e.line
    /\ resp.match.code = e.text

MatchIs(e) == MatchOf(a_resp, e)

\* position k holds the largest similarity to the query, and no position
\* before k holds it
FirstMaximum(k) ==
    /\ k \in 1..Len(indexed_lines)
    /\ \A j \in 1..Len(indexed_lines) : ~SimLess(SimTo(k), SimTo(j))
    /\ \A j \in 1..(k - 1) : SimLess(SimTo(j), SimTo(k))

\* C1: after a build call, either it reported success and the index is the
\* complete new index, or it failed and the index is exactly the one held
\* before the call.
C1_BuildAtomic ==
    bpc = "done" =>
        IF b_resp.status = 200
        THEN indexed_lines = IndexOf(b_lines)
        ELSE indexed_lines = b_old

\* C2: an analysis of a non-empty query that finds the index empty restores
\* it from the snapshot when one was saved and serves the query against the
\* restored index; without a snapshot it answers that the codebase is not
\* indexed yet and the index stays empty; the matcher never runs over an
\* empty index.
C2_RestoreOrNotReady ==
    /\ apc = "similarity" => indexed_lines # << >>
    /\ apc \in {"load", "restore"} => indexed_lines = << >>
    /\ (apc \in {"similarity", "lookup"} /\ a_cached # << >>) =>
           (cache = Snapshot(a_cached) /\ indexed_lines = a_cached)
    /\ (apc = "lookup" /\ a_cached # << >>) => a_src = a_cached
    /\ (apc = "done" /\ a_query # << >> /\ cache.state = "saved") =>
           (indexed_lines # << >> /\ a_resp # NotReady)
    /\ (apc = "done" /\ a_query # << >> /\ cache.state = "absent"
            /\ indexed_lines = << >>) => a_resp = NotReady
    /\ (apc = "done" /\ a_resp = NotReady) =>
           (cache.state = "absent" /\ indexed_lines = << >>)

\* a query matched against an index restored from the snapshot
C2_Witness ==
    /\ apc = "lookup"
    /\ a_cached # << >>
    /\ indexed_lines = a_cached
    /\ a_src = a_cached
    /\ a_top_idx \in 1..Len(a_cached)

\* C3: the score is in 0..100 for every query text, every issue list and
\* both values of the validated flag.
C3_ScoreInRange == q_pc \in {"scored", "scored_any"} => q_score \in 0..100

\* a score the lower clamp has raised to 0
C3_Witness ==
    /\ q_pc = "scored_any"
    /\ RawScore(q_sql, q_issues, q_validated) < 0
    /\ q_score = 0

\* C4: the matcher returns the entry of maximal cosine similarity to the
\* query, and of the entries that share the maximum the one at the lowest
\* position.
C4_FirstMaximum ==
    /\ apc = "lookup" => FirstMaximum(a_top_idx)
    /\ Served => \E k \in 1..Len(indexed_lines) :
                     /\ FirstMaximum(k)
                     /\ MatchIs(indexed_lines[k])
                     /\ a_resp.match.similarity = SimTo(k)

\* a match chosen among two entries of the same, maximal similarity
C4_Witness ==
    /\ Served
    /\ \E k, j \in 1..Len(indexed_lines) :
           /\ k < j
           /\ MatchIs(indexed_lines[k])
           /\ SimEq(SimTo(j), SimTo(k))

\* C5, as stated: a query whose text equals the text of an indexed line gets
\* that exact line (same file and line number) as the match, with the
\* maximal similarity.
C5_RoundTripExactLine ==
    Served =>
        \A i \in 1..Len(indexed_lines) :
            indexed_lines[i].text = a_query =>
                /\ a_resp.match.file = indexed_lines[i].file
                /\ a_resp.match.line = indexed_lines[i].line
                /\ \A j \in 1..Len(indexed_lines) :
                       ~SimLess(a_resp.match.similarity, SimTo(j))

\* C5, amended: a query whose text equals the text of an indexed line gets a
\* match of cosine 1, the similarity of that line to itself; the match is the
\* entry of the lowest position with that similarity, which is that exact
\* line when no entry before it has similarity 1 to the query.
C5_RoundTripFirstBest ==
    Served =>
        \A i \in 1..Len(indexed_lines) :
            indexed_lines[i].text = a_query =>
                /\ SimEq(SimTo(i), One)
                /\ SimEq(a_resp.match.similarity, One)
                /\ \E k \in 1..i :
                       /\ MatchIs(indexed_lines[k])
                       /\ SimEq(SimTo(k), One)
                       /\ \A j \in 1..(k - 1) : SimLess(SimTo(j), One)
                /\ (\A j \in 1..(i - 1) : SimLess(SimTo(j), One)) =>
                       MatchIs(indexed_lines[i])

\* the queried line found at the second position of the index
C5_Witness ==
    /\ Served
    /\ Len(indexed_lines) = 2
    /\ indexed_lines[2].text = a_query
    /\ MatchIs(indexed_lines[2])

\* a like literal whose first character inside the quotes is %
LeadingWildcardLiteral(normalized_sql) ==
    \E i \in 1..Len(normalized_sql) :
        /\ StartsWithAt(normalized_sql, i, <<"l", "i", "k", "e">>)
        /\ IsQuote(At(normalized_sql, SkipWs(normalized_sql, i + 4)))
        /\ At(normalized_sql, SkipWs(normalized_sql, i + 4) + 1) = "%"

\* C6: the analyzer emits the leading-wildcard issue exactly when the
\* normalized query holds a like literal whose first character inside the
\* quotes is %.
C6_LeadingWildcardIff ==
    q_pc \in {"analyzed", "scored"} =>
        (HasIssue(q_issues, "like_leading")
            <=> LeadingWildcardLiteral(normalize_sql(q_sql)))

\* C7, as stated: the query of the first test reports the wildcard projection
\* and the missing limit and scores 65, rated Fair, whatever the validation
\* outcome.
C7_Score65 ==
    (q_pc = "scored" /\ q_sql = TestQuery1) =>
        /\ HasIssue(q_issues, "select_star")
        /\ HasIssue(q_issues, "no_limit")
        /\ q_score = 65
        /\ get_performance_rating(q_score) = "Fair"

\* C7, amended: the query of the first test reports the wildcard projection
\* and the missing limit; it scores 65 when the matched line is validated and
\* 60 when it is not, and is rated Fair in both cases.
C7_Score65Or60 ==
    (q_pc = "scored" /\ q_sql = TestQuery1) =>
        /\ HasIssue(q_issues, "select_star")
        /\ HasIssue(q_issues, "no_limit")
        /\ q_score = (IF q_validated THEN 65 ELSE 60)
        /\ get_performance_rating(q_score) = "Fair"

\* the query of the first test scored for a line that is not validated
C7_Witness == q_pc = "scored" /\ q_sql = TestQuery1 /\ ~q_validated /\ q_score = 60

\* the rules of classify_query in their order: a rule holds on a line when,
\* for one of its alternatives, every marker of the alternative occurs in the
\* lower-cased line
ClassifyRules ==
    << [alts |-> {{<<"d", "b", ":", ":", "s", "e", "l", "e", "c", "t">>}, {<<"d", "b", ":", ":", "s", "t", "a", "t", "e", "m", "e", "n", "t">>}},
        category |-> "Raw SQL (High Performance Risk)"],
       [alts |-> {{<<"d", "b", ":", ":", "r", "a", "w">>}}, category |-> "Raw SQL with DB::raw (High Performance Risk)"],
       [alts |-> {{<<"d", "b", ":", ":", "t", "a", "b", "l", "e">>}}, category |-> "Query Builder (Moderate Performance Risk)"],
       [alts |-> {{<<"d", "b", ":", ":", "c", "o", "n", "n", "e", "c", "t", "i", "o", "n">>}}, category |-> "Query Builder with Custom Connection"],
       [alts |-> {{<<"-", ">", "w", "h", "e", "r", "e">>, <<":", ":">>}}, category |-> "Eloquent ORM (Lower Performance Risk)"],
       [alts |-> {{<<"-", ">", "g", "e", "t", "(", ")">>}}, category |-> "Eloquent Collection (Memory Intensive)"],
       [alts |-> {{<<"-", ">", "p", "a", "g", "i", "n", "a", "t", "e">>}}, category |-> "Eloquent Pagination (Good Performance)"],
       [alts |-> {{<<"-", ">", "c", "h", "u", "n", "k">>}}, category |-> "Eloquent Chunking (Good for Large Datasets)"],
       [alts |-> {{<<"-", ">", "w", "i", "t", "h", "(">>}}, category |-> "Eloquent Eager Loading (Good Performance)"],
       [alts |-> {{<<"-", ">", "l", "o", "a", "d", "(">>}}, category |-> "Eloquent Lazy Loading (Potential N+1)"],
       [alts |-> {{<<"-", ">", "j", "o", "i", "n", "(">>}}, category |-> "Eloquent Join (Moderate Performance Risk)"],
       [alts |-> {{<<"-", ">", "l", "e", "f", "t", "j", "o", "i", "n", "(">>}},
        category |-> "Eloquent Left Join (Moderate Performance Risk)"],
       [alts |-> {{<<"-", ">", "c", "o", "u", "n", "t", "(">>}}, category |-> "Eloquent Count (Good Performance)"],
       [alts |-> {{<<"-", ">", "s", "u", "m", "(">>}, {<<"-", ">", "a", "v", "g", "(">>}},
        category |-> "Eloquent Aggregation (Good Performance)"],
       [alts |-> {{<<"-", ">", "w", "h", "e", "r", "e", "h", "a", "s", "(">>}},
        category |-> "Eloquent WhereHas (Potential Performance Issue)"],
       [alts |-> {{<<"-", ">", "w", "h", "e", "r", "e", "d", "o", "e", "s", "n", "t", "h", "a", "v", "e", "(">>}},
        category |-> "Eloquent WhereDoesntHave (Potential Performance Issue)"] >>

\* the rules whose markers occur, case-insensitively, in the line
MarkersIn(line_lower) ==
    { r \in 1..Len(ClassifyRules) :
        \E alt \in ClassifyRules[r].alts :
            \A marker \in alt : Contains(line_lower, marker) }

RulesHolding(code_line) == MarkersIn(lower(code_line))

\* C8: every line gets exactly one category: that of the first rule, in the
\* order of the table, whose marker occurs case-insensitively in the line,
\* and "Unknown Query Type" exactly when no marker occurs.
C8_FirstMatchWins ==
    c_pc = "classified" =>
        LET holding == RulesHolding(c_line)
        IN  /\ c_result \in {ClassifyRules[r].category : r \in 1..Len(ClassifyRules)}
                                \cup {"Unknown Query Type"}
            /\ (c_result = "Unknown Query Type") <=> (holding = {})
            /\ \A r \in holding :
                   (\A r2 \in holding : r <= r2) => c_result = ClassifyRules[r].category

\* a line on which a later rule holds as well as the one that classifies it
C8_Witness ==
    /\ c_pc = "classified"
    /\ Cardinality(RulesHolding(c_line)) >= 2
    /\ \E r \in RulesHolding(c_line) :
           /\ r > 1
           /\ c_result = ClassifyRules[r].category

\* C9: an analysis that runs while a build replaces the index takes the
\* similarity vector, the chosen position and the matched entry from one
\* version of the index, and the lookup of the position never falls outside
\* the index.
C9_NoTornRead ==
    [][(apc = "lookup" /\ apc' = "done") =>
           /\ a_top_idx \in 1..Len(indexed_lines)
           /\ a_resp'.status = 200
           /\ MatchOf(a_resp', a_src[a_top_idx])
           /\ a_resp'.match.similarity
                  = Cosine(embed[a_query], a_src[a_top_idx].embedding)]_vars

\* C10: the scorer subtracts the penalty of a rule exactly when the analyzer
\* emitted the issue of that rule for the same query, and a query and its
\* whitespace-normalized form get the same score.
C10_ScorerAgreesWithAnalyzer ==
    q_pc = "scored" =>
        /\ \A r \in 1..Len(ScoredRules) :
               ScorerPenalises(ScoredRules[r], q_sql) <=> HasIssue(q_issues, ScoredRules[r])
        /\ q_score = calculate_performance_score(
                         normalize_sql(q_sql),
                         analyze_sql_issues(normalize_sql(q_sql)),
                         q_validated)

\* the lines of the file within 20 lines of the matched line, on either side
SymmetricWindow(read, line_number) ==
    { k \in 1..Len(read.lines) : line_number - 20 <= k /\ k <= line_number + 20 }

\* the stripped, lower-cased line k of the file holds one of the patterns
LineMatches(read, k, pats) ==
    PatternHits(pats, lower(strip(read.lines[k])), 1) # << >>

\* C11: the validator inspects exactly the lines L-20 through L+20 of the file
\* that exist, L being the 1-based number of the matched line, so a validation
\* marker sets validated exactly when it stands on one of those lines.
C11_SymmetricWindow ==
    (v_pc = "validated" /\ v_read.ok) =>
        /\ ScannedLines(v_read, v_line) = SymmetricWindow(v_read, v_line)
        /\ v_result.validated <=>
               \E k \in SymmetricWindow(v_read, v_line) :
                   LineMatches(v_read, k, ValidationPatterns)

\* C12: a line of the window that matches a validation marker (a validation
\* call, a validator-factory call or an escaping call) sets validated and
\* appends an entry to validation_methods, so that validated is true exactly
\* when validation_methods is not empty.
C12_ValidatedIffMethods ==
    v_pc = "validated" =>
        /\ v_result.validated <=> (v_result.validation_methods # << >>)
        /\ \A k \in ScannedLines(v_read, v_line) :
               (LineMatches(v_read, k, ValidationPatterns)
                    \/ LineMatches(v_read, k, SecurityPatterns)) =>
                   /\ v_result.validated
                   /\ \E m \in DOMAIN v_result.validation_methods :
                          v_result.validation_methods[m].line = k

\* the build has replaced the index and not failed since
BuildSucceeded ==
    bpc \in {"save", "reply"} \/ (bpc = "done" /\ b_resp.status = 200)

\* C13: after a successful build over n >= 1 extracted lines, whether or not
\* n is a multiple of batch_size, the index has exactly n entries, entry i is
\* extracted line i with the embedding of the text of line i, and the reply
\* counts n entries
C13_BatchingPreservesOrder ==
    BuildSucceeded =>
        /\ Len(b_lines) >= 1
        /\ Len(indexed_lines) = Len(b_lines)
        /\ \A i \in 1..Len(b_lines) :
               indexed_lines[i] =
                   [file |-> b_lines[i].file, line |-> b_lines[i].line,
                    text |-> b_lines[i].text, embedding |-> embed[b_lines[i].text]]
        /\ (bpc = "done" => b_resp.count = Len(b_lines))

\* a build of more than one batch, the last batch partial, has replied, and
\* the line with the first text lies in the last batch
C13_Witness ==
    /\ bpc = "done" /\ b_resp.status = 200
    /\ Len(b_lines) > batch_size /\ Len(b_lines) % batch_size # 0
    /\ \E i \in 1..Len(b_lines) :
           /\ i > (Len(b_lines) \div batch_size) * batch_size
           /\ b_lines[i].text = LineText1
           /\ indexed_lines[i].embedding = embed[LineText1]
           /\ embed[LineText1] # embed[LineText2]
=============================================================================
